---------------------------- MODULE Spec2Model ----------------------------
(***************************************************************************)
(* Model of the Spotted bot (bot.py, database.py): Slack events are        *)
(* dispatched to handlers that run concurrently, share the in-memory set   *)
(* processed_messages and mutate the 'scores' table through add_point.     *)
(*                                                                         *)
(* Texts and user identifiers are sequences of one-character strings, so   *)
(* that the regular expression of extract_mentions is computed, not        *)
(* assumed.  A MIME type "image/png" is the pair <<"image", "png">>.       *)
(*                                                                         *)
(* Four specifications share the variables, each leaving the others'       *)
(* parts as they are: Spec (the event handlers of bot.py), StoreSpec (a    *)
(* Database call, request by request), CommandSpec (the event handlers     *)
(* with the commands !adjust, !leaderboard, !myscore) and StartSpec        *)
(* (main.py with the module initialisation of bot.py and api.py).          *)
(***************************************************************************)
EXTENDS Integers, Sequences, FiniteSets, TLC

---------------------------------------------------------------------------
(* Bounds of the model *)

\* handler threads that may be in flight for the small feeds
NHandlers == 2
\* external calls (Slack API, store) that may raise in one behaviour
MaxFaults == 1

---------------------------------------------------------------------------
(* Characters, identifiers, texts *)

Digits == <<"0", "1", "2", "3", "4", "5", "6", "7", "8", "9">>

Upper == {"A", "B", "C", "D", "E", "F", "G", "H", "I", "J", "K", "L", "M", "N", "O", "P", "Q", "R", "S", "T", "U", "V", "W", "X", "Y", "Z"}

\* the character class [A-Z0-9] of the mention pattern
IdChars == Upper \cup {Digits[i] : i \in 1..10}

\* a Slack user identifier of the usual shape: "U0000000" followed by n
Uid(n) == <<"U", "0", "0", "0", "0", "0", "0", Digits[(n \div 10) + 1], Digits[(n % 10) + 1]>>

\* an identifier the pattern accepts although it is not of the user-ID shape
BAD == <<"B", "A", "D">>

\* the inline mention token <@ID>
Mention(id) == <<"<", "@">> \o id \o <<">">>

Sp == <<" ">>

\* the identifier shape of the specification's MentionSet: prefix and length
UserIdPrefix == "U"

UserIdMinLen == 9

UserIdMaxLen == 11

IsUserIdShape(id) == Len(id) >= UserIdMinLen /\ Len(id) <= UserIdMaxLen /\ id[1] = UserIdPrefix

\* the fan-out limit of the specification's classifier
FanOutCap == 10

---------------------------------------------------------------------------
(* extract_mentions: re.findall(r'<@([A-Z0-9]+)>', text) *)

RECURSIVE RunEnd(_, _)
\* first position at or after j that does not hold a character of [A-Z0-9]
RunEnd(text, j) == IF j <= Len(text) /\ text[j] \in IdChars THEN RunEnd(text, j + 1) ELSE j

RECURSIVE FindAll(_, _)
\* the groups of the non-overlapping matches found scanning from position i
FindAll(text, i) ==
  IF i > Len(text) THEN <<>>
  ELSE IF text[i] = "<" /\ i + 1 <= Len(text) /\ text[i + 1] = "@"
       THEN LET e == RunEnd(text, i + 2)
            IN  IF e > i + 2 /\ e <= Len(text) /\ text[e] = ">"
                THEN <<SubSeq(text, i + 2, e - 1)>> \o FindAll(text, e + 1)
                ELSE FindAll(text, i + 1)
       ELSE FindAll(text, i + 1)

extract_mentions(text) == IF text = <<>> THEN <<>> ELSE FindAll(text, 1)

RECURSIVE Without(_, _)
\* [u for u in mentioned_users if u != user_id]
Without(seq, u) ==
  IF seq = <<>> THEN <<>>
  ELSE IF Head(seq) = u THEN Without(Tail(seq), u) ELSE <<Head(seq)>> \o Without(Tail(seq), u)

\* file.get('mimetype', '').startswith('image/')
IsImage(file) == file.mimetype[1] = "image"

\* has_image(message)
has_image(message) == \E i \in 1..Len(message.files) : IsImage(message.files[i])

\* sum(1 for file in msg.get('files', []) if image)
ImageCount(m) == Cardinality({i \in 1..Len(m.files) : IsImage(m.files[i])})

---------------------------------------------------------------------------
(* The 'scores' table and Database.add_point *)

\* the table after a call of add_point(user_id, points) that returns normally:
\* the existing row is updated to score + points, a missing row is inserted
add_point(table, user_id, points) ==
  IF user_id \in DOMAIN table
  THEN [table EXCEPT ![user_id] = table[user_id] + points]
  ELSE [u \in DOMAIN table \cup {user_id} |-> IF u = user_id THEN points ELSE table[u]]

RECURSIVE SumOver(_, _)
\* the sum of the scores of the given users (used by the properties)
SumOver(table, users) ==
  IF users = {} THEN 0
  ELSE LET u == CHOOSE x \in users : TRUE IN table[u] + SumOver(table, users \ {u})

\* the total of all stored scores
TotalScore(table) == SumOver(table, DOMAIN table)

---------------------------------------------------------------------------
(* The channel, its files and the messages users post *)

SPOTTED_CHANNEL == "C_SPOTTED"

Channels == {SPOTTED_CHANNEL, "C_OTHER"}

\* every channel taken for the configured one
AnyChannel(channel) == FALSE

\* bot.py lines 53, 153, 232, 257 and 271: the channel is not SPOTTED_CHANNEL
WrongChannel(channel) == channel # SPOTTED_CHANNEL

\* conversations_history(channel=channel_id, limit=5)
HistoryLimit == 5

Posters == {Uid(1), Uid(2)}

Png(id) == [id |-> id, mimetype |-> <<"image", "png">>]

Txt(id) == [id |-> id, mimetype |-> <<"text", "plain">>]

Post(user, text, files) == [user |-> user, text |-> text, files |-> files, subtype |-> "none"]

RECURSIVE MentionAll(_, _)
\* the text mentioning users from..to, separated by blanks
MentionAll(from, to) == IF from > to THEN <<>> ELSE Mention(Uid(from)) \o Sp \o MentionAll(from + 1, to)

\* "<@U2> ok" with an image: one target
OneTarget == Post(Uid(1), Mention(Uid(2)) \o Sp \o <<"o", "k">>, <<Png("F1")>>)

\* two targets
TwoTargets == Post(Uid(1), Mention(Uid(2)) \o Sp \o Mention(Uid(3)), <<Png("F1")>>)

\* the same user mentioned twice
Repeated == Post(Uid(1), Mention(Uid(2)) \o Mention(Uid(2)), <<Png("F1")>>)

\* "<@U1> found me" posted by U1
SelfOnly == Post(Uid(1), Mention(Uid(1)) \o Sp \o <<"m", "e">>, <<Png("F1")>>)

\* the poster mentions itself and another user
SelfAndOther == Post(Uid(1), Mention(Uid(1)) \o Sp \o Mention(Uid(2)), <<Png("F1")>>)

\* a token of the wrong shape, and tokens the pattern does not match
Malformed == Post(Uid(1), Mention(BAD) \o Sp \o Mention(<<"u", "1">>) \o <<"<", "@", ">">>, <<Png("F1")>>)

\* a mention with a file that is no image
NoImage == Post(Uid(1), Mention(Uid(2)), <<Txt("F0")>>)

\* a mention with a file that is no image and an image
Mixed == Post(Uid(1), Mention(Uid(2)), <<Txt("F0"), Png("F1")>>)

\* a second poster spotting the first
Reverse == Post(Uid(2), Mention(Uid(1)), <<Png("F3")>>)

\* more mentions than the fan-out limit of the specification
ManyTargets == Post(Uid(1), MentionAll(2, FanOutCap + 2), <<Png("F1")>>)

\* a message a bot posted with an image: its subtype says so
BotEcho == [Post(Uid(1), Mention(Uid(2)), <<Png("F1")>>) EXCEPT !.subtype = "bot_message"]

\* a message with no file and no mention
Chat == Post(Uid(2), <<"h", "i">>, <<>>)

\* a spot, then as many messages as the history window holds
Crowded == <<OneTarget>> \o [i \in 1..HistoryLimit |-> Chat]

\* what is posted in a behaviour, and how many handlers may run
Scenarios ==
  { [feed |-> <<OneTarget>>, slots |-> NHandlers],
    [feed |-> <<TwoTargets>>, slots |-> 1],
    [feed |-> <<Repeated>>, slots |-> 1],
    [feed |-> <<SelfOnly>>, slots |-> NHandlers],
    [feed |-> <<SelfAndOther>>, slots |-> NHandlers],
    [feed |-> <<Malformed>>, slots |-> NHandlers],
    [feed |-> <<NoImage>>, slots |-> NHandlers],
    [feed |-> <<Mixed>>, slots |-> 1],
    [feed |-> <<OneTarget, Reverse>>, slots |-> 2],
    [feed |-> <<ManyTargets>>, slots |-> 1],
    [feed |-> <<BotEcho>>, slots |-> 1],
    [feed |-> Crowded, slots |-> 1] }

---------------------------------------------------------------------------
(* State *)

VARIABLES
  feed,                \* messages users have still to post
  history,             \* the channel's messages, newest first
  processed_messages,  \* bot.py: the set of message timestamps already handled
  scores,              \* the 'scores' table: user_id -> score
  reactions,           \* reactions the bot has added
  replies,             \* replies the bot has posted
  faults,              \* external calls that have raised so far
  pc,                  \* each handler's position
  event,               \* each handler's event
  fetched,             \* history['messages'] of a file_shared handler
  msg,                 \* the message a handler works on
  mentioned_users,     \* each handler's mentioned_users
  idx,                 \* position of the loop over mentioned_users
  spotted_names,       \* each handler's spotted_names (as identifiers)
  calls,               \* history: the add_point calls each handler has made
  seen,                \* history: processed_messages when the event was delivered
  raised               \* history: the external calls of each handler that raised

VARIABLES
  call                 \* database.py: the Database call each caller is in

VARIABLES
  commands,            \* how many command messages Slack has delivered
  message,             \* bot.py: the message of the last command handler run
  said                 \* what the command handlers have said in the channel

VARIABLES
  env,                 \* the environment variables that are set
  shutdown_event,      \* main.py: shutdown_event
  bot_thread,          \* main.py: run_bot_with_restart, its position and locals
  bot_module,          \* whether 'import bot' has succeeded
  main_thread,         \* main.py: the position of the main thread
  api_db,              \* api.py: db
  responses            \* the HTTP responses the API has served

vars == <<feed, history, processed_messages, scores, reactions, replies, faults, pc, event, fetched, msg, mentioned_users, idx, spotted_names, calls, seen, raised, call, commands, message, said, env, shutdown_event, bot_thread, bot_module, main_thread, api_db, responses>>

\* the state of the event handlers
handlerVars == <<feed, history, processed_messages, scores, reactions, replies, faults, pc, event, fetched, msg, mentioned_users, idx, spotted_names, calls, seen, raised>>

storeVars == <<call>>

commandVars == <<commands, message, said>>

startVars == <<env, shutdown_event, bot_thread, bot_module, main_thread, api_db, responses>>

\* the state outside the event handlers
outside == <<storeVars, commandVars, startVars>>

\* no command has come
NoCommands == commands = 0 /\ message = [command |-> "none"] /\ said = {}

Credentials == {"SUPABASE_URL", "SUPABASE_KEY"}

\* main.py line 22: max_retries = 5, and line 23: retry_delay = 5
BotMaxRetries == 5

BotRetryDelay == 5

\* the process runs with its configuration complete: the handlers of bot.py
\* are registered and the Database is connected
Running ==
  /\ env = Credentials
  /\ shutdown_event = FALSE
  /\ bot_thread = [at |-> "started", attempt |-> 0, retry_delay |-> BotRetryDelay, slept |-> <<>>, starts |-> 1]
  /\ bot_module = "imported"
  /\ main_thread = "serving"
  /\ api_db = "client"
  /\ responses = {}

world == <<feed, history>>

outputs == <<reactions, replies>>

locals == <<event, fetched, msg, mentioned_users, idx, spotted_names, calls, seen>>

NoEvent == [type |-> "none"]

NoMsg == [ts |-> 0, user |-> <<>>, text |-> <<>>, files |-> <<>>, subtype |-> "none"]

Handlers == DOMAIN pc

Boot(scenarios) ==
  /\ \E sc \in scenarios :
       /\ feed = sc.feed
       /\ pc = [h \in 1..sc.slots |-> "idle"]
       /\ event = [h \in 1..sc.slots |-> NoEvent]
       /\ fetched = [h \in 1..sc.slots |-> <<>>]
       /\ msg = [h \in 1..sc.slots |-> NoMsg]
       /\ mentioned_users = [h \in 1..sc.slots |-> <<>>]
       /\ idx = [h \in 1..sc.slots |-> 0]
       /\ spotted_names = [h \in 1..sc.slots |-> <<>>]
       /\ calls = [h \in 1..sc.slots |-> <<>>]
       /\ seen = [h \in 1..sc.slots |-> {}]
       /\ raised = [h \in 1..sc.slots |-> {}]
  /\ history = <<>>
  /\ processed_messages = {}
  /\ scores = [u \in {} |-> 0]
  /\ reactions = {}
  /\ replies = {}
  /\ faults = 0
  /\ call = <<>>
  /\ NoCommands
  /\ Running

Init == Boot(Scenarios)

---------------------------------------------------------------------------
(* The platform: users post, Slack dispatches events to handler threads *)

\* events go to the lowest idle handler (handlers are interchangeable)
NextIdle(h) == pc[h] = "idle" /\ \A g \in Handlers : g < h => pc[g] # "idle"

\* a user posts the next message of the feed; its ts is its rank in the channel
PostMessage ==
  /\ feed # <<>>
  /\ history' = <<[ts |-> Len(history) + 1, user |-> Head(feed).user, text |-> Head(feed).text, files |-> Head(feed).files, subtype |-> Head(feed).subtype]>> \o history
  /\ feed' = Tail(feed)
  /\ UNCHANGED <<processed_messages, scores, outputs, faults, raised, pc, locals>>
  /\ UNCHANGED outside

\* what files_info(file=file_id) returns: the file of that id
PostedFiles == UNION {{history[i].files[k] : k \in 1..Len(history[i].files)} : i \in 1..Len(history)}

FileInfo(file_id) == CHOOSE f \in PostedFiles : f.id = file_id

Min(a, b) == IF a <= b THEN a ELSE b

\* the handler returns (or its exception is caught and printed)
Return(h) == pc' = [pc EXCEPT ![h] = "done"]

\* an external call raises
Raise == faults < MaxFaults /\ faults' = faults + 1

\* the call of that name is the one that raised in handler h
Failed(h, what) == raised' = [raised EXCEPT ![h] = @ \cup {what}]

\* the ledger test left out
NeverProcessed(msg_ts, ledger) == FALSE

\* line 81: msg_ts in processed_messages
AlreadyProcessed(msg_ts, ledger) == msg_ts \in ledger

\* the poster left among the mentions
TargetsWithSelf(text, user_id) == extract_mentions(text)

\* line 91 and line 181: the mentions without the poster
Targets(text, user_id) == Without(extract_mentions(text), user_id)

\* the empty test left out
SomeMention(mentions) == FALSE

\* lines 93-95 and 183-185: if not mentioned_users: return
NoMentions(mentions) == mentions = <<>>

---------------------------------------------------------------------------
(* handle_file_shared, up to the ledger *)

\* Slack sends file_shared for a file of a posted message (possibly again), for
\* its channel or another one, for its author or (in the channel) another user,
\* and the handler runs lines 49-71: channel check, files_info, image check,
\* conversations_history.  None of these reads or writes the bot's state.
FileSharedEvent(h) ==
  /\ NextIdle(h)
  /\ \E i \in 1..Len(history) : \E k \in 1..Len(history[i].files) : \E c \in Channels : \E u \in Posters :
       /\ c # SPOTTED_CHANNEL => u = history[i].user
       /\ event' = [event EXCEPT ![h] = [type |-> "file_shared", file_id |-> history[i].files[k].id, channel_id |-> c, user_id |-> u]]
       /\ \/ /\ WrongChannel(c)
             /\ Return(h)
             /\ UNCHANGED <<faults, raised, fetched>>
          \/ /\ ~WrongChannel(c)
             /\ Raise
             /\ \/ Failed(h, "files_info")
                \/ IsImage(FileInfo(history[i].files[k].id)) /\ Failed(h, "conversations_history")
             /\ Return(h)
             /\ UNCHANGED fetched
          \/ /\ ~WrongChannel(c)
             /\ ~IsImage(FileInfo(history[i].files[k].id))
             /\ Return(h)
             /\ UNCHANGED <<faults, raised, fetched>>
          \/ /\ ~WrongChannel(c)
             /\ IsImage(FileInfo(history[i].files[k].id))
             /\ fetched' = [fetched EXCEPT ![h] = SubSeq(history, 1, Min(HistoryLimit, Len(history)))]
             /\ pc' = [pc EXCEPT ![h] = "fs_check"]
             /\ UNCHANGED <<faults, raised>>
  /\ seen' = [seen EXCEPT ![h] = processed_messages]
  /\ UNCHANGED <<world, processed_messages, scores, outputs, msg, mentioned_users, idx, spotted_names, calls>>
  /\ UNCHANGED outside

\* the user of the message not compared
MatchingFile(h) == {i \in 1..Len(fetched[h]) : \E k \in 1..Len(fetched[h][i].files) : fetched[h][i].files[k].id = event[h].file_id}

\* lines 73-76: the messages of the fetched window by this user that hold the file
Matching(h) == {i \in 1..Len(fetched[h]) : fetched[h][i].user = event[h].user_id /\ \E k \in 1..Len(fetched[h][i].files) : fetched[h][i].files[k].id = event[h].file_id}

\* the first of them: every path from line 77 on returns
FirstMatch(h) == fetched[h][CHOOSE i \in Matching(h) : \A j \in Matching(h) : i <= j]

\* lines 73-103: find the message, test the ledger, extract the mentions
FsCheck(h) ==
  /\ pc[h] = "fs_check"
  /\ \/ /\ Matching(h) = {}
        /\ Return(h)
        /\ UNCHANGED <<msg, mentioned_users>>
     \/ /\ Matching(h) # {}
        /\ msg' = [msg EXCEPT ![h] = FirstMatch(h)]
        /\ mentioned_users' = [mentioned_users EXCEPT ![h] = IF AlreadyProcessed(FirstMatch(h).ts, processed_messages) THEN <<>> ELSE Targets(FirstMatch(h).text, event[h].user_id)]
        /\ IF AlreadyProcessed(FirstMatch(h).ts, processed_messages) \/ NoMentions(mentioned_users'[h]) \/ ImageCount(FirstMatch(h)) = 0
           THEN Return(h)
           ELSE pc' = [pc EXCEPT ![h] = "fs_claim"]
  /\ UNCHANGED <<world, processed_messages, scores, outputs, faults, raised, event, fetched, idx, spotted_names, calls, seen>>
  /\ UNCHANGED outside

\* line 106: processed_messages.add(msg_ts); then lines 110-111: users_info of
\* the poster, whose failure ends the handler (line 140)
FsClaim(h) ==
  /\ pc[h] = "fs_claim"
  /\ processed_messages' = processed_messages \cup {msg[h].ts}
  /\ \/ /\ idx' = [idx EXCEPT ![h] = 1]
        /\ pc' = [pc EXCEPT ![h] = "credit"]
        /\ UNCHANGED <<faults, raised>>
     \/ /\ Raise
        /\ Failed(h, "users_info(poster)")
        /\ Return(h)
        /\ UNCHANGED idx
  /\ UNCHANGED <<world, scores, outputs, event, fetched, msg, mentioned_users, spotted_names, calls, seen>>
  /\ UNCHANGED outside

---------------------------------------------------------------------------
(* handle_message_disabled, up to the reconciliation *)

IgnoredSubtypes == {"bot_message", "message_changed"}

\* lines 153-185: channel, subtype, image, user, mentions
IsSpotMessage(channel, m) ==
  /\ ~WrongChannel(channel)
  /\ m.subtype \notin IgnoredSubtypes
  /\ has_image(m)
  /\ m.user # <<>>
  /\ ~NoMentions(Targets(m.text, m.user))

\* Slack sends the message event of a posted message (possibly again), and the
\* handler runs lines 153-190: the checks, then users_info of the poster, whose
\* failure ends the handler (line 224).  The ledger is not consulted.
MessageEvent(h) ==
  /\ NextIdle(h)
  /\ \E i \in 1..Len(history) : \E c \in Channels :
       /\ event' = [event EXCEPT ![h] = [type |-> "message", channel |-> c, message |-> history[i]]]
       /\ \/ /\ ~IsSpotMessage(c, history[i])
             /\ Return(h)
             /\ UNCHANGED <<faults, raised, msg, mentioned_users, idx>>
          \/ /\ IsSpotMessage(c, history[i])
             /\ msg' = [msg EXCEPT ![h] = history[i]]
             /\ mentioned_users' = [mentioned_users EXCEPT ![h] = Targets(history[i].text, history[i].user)]
             /\ \/ /\ idx' = [idx EXCEPT ![h] = 1]
                   /\ pc' = [pc EXCEPT ![h] = "credit"]
                   /\ UNCHANGED <<faults, raised>>
                \/ /\ Raise
                   /\ Failed(h, "users_info(poster)")
                   /\ Return(h)
                   /\ UNCHANGED idx
  /\ seen' = [seen EXCEPT ![h] = processed_messages]
  /\ UNCHANGED <<world, processed_messages, scores, outputs, fetched, spotted_names, calls>>
  /\ UNCHANGED outside

---------------------------------------------------------------------------
(* The reconciliation: bot.py lines 113-139 and, the same code, 192-223 *)

\* user_id of handle_file_shared, spotter_id of handle_message_disabled
Poster(h) == IF event[h].type = "file_shared" THEN event[h].user_id ELSE event[h].message.user

\* channel_id, event['channel']
Channel(h) == IF event[h].type = "file_shared" THEN event[h].channel_id ELSE event[h].channel

\* the loop goes on to the next mention, or ends
Advance(h, names) ==
  /\ idx' = [idx EXCEPT ![h] = idx[h] + 1]
  /\ pc' = [pc EXCEPT ![h] = IF idx[h] < Len(mentioned_users[h]) THEN "credit" ELSE IF names # <<>> THEN "ack" ELSE "done"]

Call(user, points, ok) == [user |-> user, points |-> points, ok |-> ok]

\* lines 116-120: users_info of the mentioned user, whose failure skips the
\* user, then db.add_point(user_id, 1, spotter_name)
Credit(h) ==
  /\ pc[h] = "credit"
  /\ \/ /\ Raise
        /\ Failed(h, "users_info(target)")
        /\ Advance(h, spotted_names[h])
        /\ UNCHANGED <<scores, calls>>
     \/ /\ Raise
        /\ Failed(h, "add_point")
        /\ calls' = [calls EXCEPT ![h] = Append(@, Call(Poster(h), 1, FALSE))]
        /\ Advance(h, spotted_names[h])
        /\ UNCHANGED scores
     \/ /\ scores' = add_point(scores, Poster(h), 1)
        /\ calls' = [calls EXCEPT ![h] = Append(@, Call(Poster(h), 1, TRUE))]
        /\ pc' = [pc EXCEPT ![h] = "debit"]
        /\ UNCHANGED <<faults, raised, idx>>
  /\ UNCHANGED <<world, processed_messages, outputs, event, fetched, msg, mentioned_users, spotted_names, seen>>
  /\ UNCHANGED outside

\* lines 121-126: db.add_point(spotted_id, -1, spotted_name), spotted_names.append
Debit(h) ==
  /\ pc[h] = "debit"
  /\ LET spotted_id == mentioned_users[h][idx[h]]
     IN  \/ /\ scores' = add_point(scores, spotted_id, -1)
            /\ calls' = [calls EXCEPT ![h] = Append(@, Call(spotted_id, -1, TRUE))]
            /\ spotted_names' = [spotted_names EXCEPT ![h] = Append(@, spotted_id)]
            /\ Advance(h, spotted_names'[h])
            /\ UNCHANGED <<faults, raised>>
         \/ /\ Raise
            /\ Failed(h, "add_point")
            /\ calls' = [calls EXCEPT ![h] = Append(@, Call(spotted_id, -1, FALSE))]
            /\ Advance(h, spotted_names[h])
            /\ UNCHANGED <<scores, spotted_names>>
  /\ UNCHANGED <<world, processed_messages, outputs, event, fetched, msg, mentioned_users, seen>>
  /\ UNCHANGED outside

\* what the reply of lines 134-139 says
Reply(h) == [thread_ts |-> msg[h].ts, spotted_list |-> spotted_names[h], caught_by |-> Poster(h), points_earned |-> Len(spotted_names[h]), tagged |-> Len(spotted_names[h])]

Eyes(h) == [channel |-> Channel(h), timestamp |-> msg[h].ts, name |-> "eyes"]

\* the exception leaves the handler
Propagated(h) == pc' = [pc EXCEPT ![h] = "raised"]

\* lines 140-141 and 224-225: except Exception as e: print(...); the handler
\* returns
Swallowed(h) == Return(h)

\* lines 128-139: reactions_add, whose failure skips the reply, then say
Acknowledge(h) ==
  /\ pc[h] = "ack"
  /\ \/ /\ Raise
        /\ Failed(h, "reactions_add")
        /\ UNCHANGED outputs
        /\ Swallowed(h)
     \/ /\ Raise
        /\ Failed(h, "say")
        /\ reactions' = reactions \cup {Eyes(h)}
        /\ UNCHANGED replies
        /\ Swallowed(h)
     \/ /\ reactions' = reactions \cup {Eyes(h)}
        /\ replies' = replies \cup {Reply(h)}
        /\ UNCHANGED <<faults, raised>>
        /\ Return(h)
  /\ UNCHANGED <<world, processed_messages, scores, locals>>
  /\ UNCHANGED outside

---------------------------------------------------------------------------

Next ==
  \/ PostMessage
  \/ \E h \in Handlers : FileSharedEvent(h)
  \/ \E h \in Handlers : MessageEvent(h)
  \/ \E h \in Handlers : FsCheck(h)
  \/ \E h \in Handlers : FsClaim(h)
  \/ \E h \in Handlers : Credit(h)
  \/ \E h \in Handlers : Debit(h)
  \/ \E h \in Handlers : Acknowledge(h)

Spec == Init /\ [][Next]_vars

---------------------------------------------------------------------------
(* database.py: a Database call, request by request *)

\* how many threads call the Database at once
NCallers == 2

Callers == DOMAIN call

\* line 23: max_retries=3
max_retries == 3

\* line 82: limit: int = 10
LeaderboardLimit == 10

\* the wait not doubled
FlatWait(attempt) == 500 * 2^0

\* line 30: wait_time = 0.5 * (2 ** attempt), in milliseconds
wait_time(attempt) == 500 * 2^attempt

\* requests to the store that may raise in one behaviour
MaxStoreFaults == 4

StoreOps == {"get_score", "add_point", "get_leaderboard", "reset_scores"}

\* the users and the points of the calls
StoreUsers == {Uid(1)}

StorePoints == {1}

\* the tables a call may find
StoreTables == {<<>>, (Uid(1) :> 2) @@ (Uid(2) :> 1)}

NoCall == [op |-> "none", user |-> <<>>, points |-> 0, before |-> <<>>, at |-> "idle", attempt |-> 0, existing |-> <<>>, outcomes |-> <<>>, slept |-> <<>>, retry |-> "pending", result |-> "pending", value |-> "none"]

\* no handler runs, nothing is posted
NoHandlers ==
  /\ feed = <<>>
  /\ history = <<>>
  /\ pc = <<>>
  /\ event = <<>>
  /\ fetched = <<>>
  /\ msg = <<>>
  /\ mentioned_users = <<>>
  /\ idx = <<>>
  /\ spotted_names = <<>>
  /\ calls = <<>>
  /\ seen = <<>>
  /\ raised = <<>>
  /\ processed_messages = {}
  /\ reactions = {}
  /\ replies = {}
  /\ faults = 0

StoreInit ==
  /\ NoHandlers
  /\ scores \in StoreTables
  /\ call = [c \in 1..NCallers |-> NoCall]
  /\ NoCommands
  /\ Running

\* lines 41-44: the score of the user's row, 0 without a row
Fetched(table, user_id) == IF user_id \in DOMAIN table THEN table[user_id] ELSE 0

\* line 86: order('score', desc=True).limit(limit); rows of equal score come
\* in an order the database picks
RECURSIVE Top(_, _)
Top(table, limit) ==
  IF limit = 0 \/ DOMAIN table = {}
  THEN <<>>
  ELSE LET u == CHOOSE u \in DOMAIN table : \A v \in DOMAIN table : table[u] >= table[v]
       IN  <<[user_id |-> u, score |-> table[u]]>> \o Top([v \in DOMAIN table \ {u} |-> table[v]], limit - 1)

\* a method of Database is called: lines 46, 76, 89, 100 enter _retry_operation
StoreCall(c) ==
  /\ call[c].at = "idle"
  /\ \A d \in Callers : d < c => call[d].at # "idle"
  /\ \E op \in StoreOps : \E u \in StoreUsers : \E p \in StorePoints :
       /\ op # "add_point" => p = 1
       /\ op \in {"get_leaderboard", "reset_scores"} => u = Uid(1)
       /\ call' = [call EXCEPT ![c] = [NoCall EXCEPT !.op = op, !.user = u, !.points = p, !.before = scores, !.at = "operation"]]
  /\ UNCHANGED <<handlerVars, commandVars, startVars>>

\* every method raising again
Reraised(op) == [result |-> "raised", value |-> "none"]

\* lines 47-49 and 90-92: get_score and get_leaderboard return 0 and []; lines
\* 77-80 and 101-103: add_point and reset_scores raise again
Wrapped(op) ==
  IF op = "get_score" THEN [result |-> "returned", value |-> 0]
  ELSE IF op = "get_leaderboard" THEN [result |-> "returned", value |-> <<>>]
  ELSE [result |-> "raised", value |-> "none"]

\* lines 28-35: operation() raised in this attempt
Failure(c) ==
  /\ faults < MaxStoreFaults
  /\ faults' = faults + 1
  /\ IF call[c].attempt < max_retries - 1
     THEN call' = [call EXCEPT ![c].outcomes = Append(@, FALSE), ![c].slept = Append(@, wait_time(call[c].attempt)), ![c].attempt = @ + 1, ![c].existing = <<>>, ![c].at = "operation"]
     ELSE call' = [call EXCEPT ![c].outcomes = Append(@, FALSE), ![c].retry = "raised", ![c].result = Wrapped(call[c].op).result, ![c].value = Wrapped(call[c].op).value, ![c].at = "done"]

\* line 27: return operation()
Success(c, v) ==
  /\ call' = [call EXCEPT ![c].outcomes = Append(@, TRUE), ![c].retry = "returned", ![c].result = "returned", ![c].value = v, ![c].at = "done"]
  /\ UNCHANGED faults

\* line 27: operation() is invoked and sends its first request, which raises
\* or is answered: the select of lines 41 and 55 and 86, the delete of line 97
\* (existing: the rows of existing.data, line 57)
Operation(c) ==
  /\ call[c].at = "operation"
  /\ \/ /\ Failure(c)
        /\ UNCHANGED scores
     \/ /\ call[c].op = "get_score"
        /\ Success(c, Fetched(scores, call[c].user))
        /\ UNCHANGED scores
     \/ /\ call[c].op = "get_leaderboard"
        /\ Success(c, Top(scores, LeaderboardLimit))
        /\ UNCHANGED scores
     \/ /\ call[c].op = "reset_scores"
        /\ scores' = <<>>
        /\ Success(c, "none")
     \/ /\ call[c].op = "add_point"
        /\ call' = [call EXCEPT ![c].existing = IF call[c].user \in DOMAIN scores THEN <<scores[call[c].user]>> ELSE <<>>, ![c].at = "update"]
        /\ UNCHANGED <<scores, faults>>
  /\ UNCHANGED <<feed, history, processed_messages, reactions, replies, pc, event, fetched, msg, mentioned_users, idx, spotted_names, calls, seen, raised>>
  /\ UNCHANGED <<commandVars, startVars>>

\* the new score without the current one
WrittenOver(table, user_id, points, existing) ==
  IF existing # <<>>
  THEN IF user_id \in DOMAIN table THEN [table EXCEPT ![user_id] = points] ELSE table
  ELSE (user_id :> points) @@ table

\* lines 57-73: what the second request of update_score does to the table: the
\* update of the row read (no row matches when it was deleted meanwhile), or
\* the insert of a new row
Written(table, user_id, points, existing) ==
  IF existing # <<>>
  THEN IF user_id \in DOMAIN table THEN [table EXCEPT ![user_id] = existing[1] + points] ELSE table
  ELSE (user_id :> points) @@ table

\* lines 57-73: the second request of update_score.  It raises before the
\* database has applied it, or it is applied and answered, or it is applied
\* and raises all the same (the answer is lost, the client times out): line 28
\* catches every Exception alike.  An insert for a user who has a row by now
\* is refused.
Update(c) ==
  /\ call[c].at = "update"
  /\ LET user_id == call[c].user
         points == call[c].points
     IN  \/ /\ Failure(c)
            /\ UNCHANGED scores
         \/ /\ call[c].existing # <<>> \/ user_id \notin DOMAIN scores
            /\ scores' = Written(scores, user_id, points, call[c].existing)
            /\ Success(c, "none")
         \/ /\ call[c].existing # <<>> \/ user_id \notin DOMAIN scores
            /\ scores' = Written(scores, user_id, points, call[c].existing)
            /\ Failure(c)
  /\ UNCHANGED <<feed, history, processed_messages, reactions, replies, pc, event, fetched, msg, mentioned_users, idx, spotted_names, calls, seen, raised>>
  /\ UNCHANGED <<commandVars, startVars>>

StoreNext ==
  \/ \E c \in Callers : StoreCall(c)
  \/ \E c \in Callers : Operation(c)
  \/ \E c \in Callers : Update(c)

StoreSpec == StoreInit /\ [][StoreNext]_vars

---------------------------------------------------------------------------
(* bot.py lines 228-304: the commands !leaderboard, !myscore and !adjust *)

\* how many command messages are delivered
MaxCommands == 2

\* the users and the amounts of the !adjust messages
AdjustTargets == {Uid(1), Uid(3)}

Adjustments == {5, -2}

\* the score set to the amount
Overwrite(table, target_user, adjustment) == (target_user :> adjustment) @@ table

\* line 293: db.add_point(target_user, adjustment, target_name)
Adjust(table, target_user, adjustment) == add_point(table, target_user, adjustment)

\* lines 267-304: adjust_score on '!adjust <@target_user> adjustment', with the
\* groups of the pattern as its input
AdjustScore ==
  /\ commands < MaxCommands
  /\ commands' = commands + 1
  /\ \E channel \in Channels : \E admin_user \in Posters : \E target_user \in AdjustTargets : \E adjustment \in Adjustments :
       /\ message' = [command |-> "adjust", channel |-> channel, user |-> admin_user, target |-> target_user, amount |-> adjustment]
       /\ \/ /\ WrongChannel(channel)
             /\ UNCHANGED <<scores, said, faults>>
          \/ /\ ~WrongChannel(channel)
             /\ Raise
             /\ said' = said \cup {[kind |-> "error", user |-> target_user, amount |-> adjustment, score |-> 0]}
             /\ UNCHANGED scores
          \/ /\ ~WrongChannel(channel)
             /\ scores' = Adjust(scores, target_user, adjustment)
             /\ \/ /\ said' = said \cup {[kind |-> "adjusted", user |-> target_user, amount |-> adjustment, score |-> Fetched(scores', target_user)]}
                   /\ UNCHANGED faults
                \/ /\ Raise
                   /\ \/ said' = said \cup {[kind |-> "adjusted", user |-> target_user, amount |-> adjustment, score |-> 0]}
                      \/ said' = said \cup {[kind |-> "error", user |-> target_user, amount |-> adjustment, score |-> 0]}
  /\ UNCHANGED <<feed, history, processed_messages, reactions, replies, pc, event, fetched, msg, mentioned_users, idx, spotted_names, calls, seen, raised>>
  /\ UNCHANGED <<storeVars, startVars>>

\* lines 228-250: show_leaderboard; get_leaderboard gives [] when it fails
ShowLeaderboard ==
  /\ commands < MaxCommands
  /\ commands' = commands + 1
  /\ \E channel \in Channels :
       /\ message' = [command |-> "leaderboard", channel |-> channel]
       /\ \/ /\ WrongChannel(channel)
             /\ UNCHANGED <<said, faults>>
          \/ /\ ~WrongChannel(channel)
             /\ \/ /\ Raise
                   /\ said' = said \cup {[kind |-> "leaderboard", rows |-> <<>>]}
                \/ /\ said' = said \cup {[kind |-> "leaderboard", rows |-> Top(scores, LeaderboardLimit)]}
                   /\ UNCHANGED faults
  /\ UNCHANGED <<feed, history, processed_messages, scores, reactions, replies, pc, event, fetched, msg, mentioned_users, idx, spotted_names, calls, seen, raised>>
  /\ UNCHANGED <<storeVars, startVars>>

\* lines 253-264: show_my_score; get_score gives 0 when it fails
ShowMyScore ==
  /\ commands < MaxCommands
  /\ commands' = commands + 1
  /\ \E channel \in Channels : \E user_id \in Posters :
       /\ message' = [command |-> "myscore", channel |-> channel, user |-> user_id]
       /\ \/ /\ WrongChannel(channel)
             /\ UNCHANGED <<said, faults>>
          \/ /\ ~WrongChannel(channel)
             /\ \/ /\ Raise
                   /\ said' = said \cup {[kind |-> "myscore", user |-> user_id, score |-> 0]}
                \/ /\ said' = said \cup {[kind |-> "myscore", user |-> user_id, score |-> Fetched(scores, user_id)]}
                   /\ UNCHANGED faults
  /\ UNCHANGED <<feed, history, processed_messages, scores, reactions, replies, pc, event, fetched, msg, mentioned_users, idx, spotted_names, calls, seen, raised>>
  /\ UNCHANGED <<storeVars, startVars>>

\* one spot and the commands
CommandInit == Boot({[feed |-> <<OneTarget>>, slots |-> 1]})

CommandNext ==
  \/ Next
  \/ AdjustScore
  \/ ShowLeaderboard
  \/ ShowMyScore

CommandSpec == CommandInit /\ [][CommandNext]_vars

---------------------------------------------------------------------------
(* main.py, and the module initialisation of bot.py and api.py *)

\* the test of the credentials left out
Unchecked(environ) == FALSE

\* database.py lines 10-14: ValueError when SUPABASE_URL or SUPABASE_KEY is
\* not set
MissingCredentials(environ) == ~(Credentials \subseteq environ)

\* the paths of the requests: the routes of lines 17, 28, 48, 70 and another
Paths == {"/", "/api/leaderboard", "/api/score/U1", "/api/stats", "/other"}

\* api.py lines 17-106: the status each route answers with, by db
Status(path, db) ==
  IF path = "/other" THEN 404
  ELSE IF db = "client" THEN 200
  ELSE 503

StartInit ==
  /\ NoHandlers
  /\ scores = <<>>
  /\ call = <<>>
  /\ NoCommands
  /\ env \in SUBSET Credentials
  /\ shutdown_event = FALSE
  /\ bot_thread = [at |-> "unstarted", attempt |-> 0, retry_delay |-> BotRetryDelay, slept |-> <<>>, starts |-> 0]
  /\ bot_module = "unloaded"
  /\ main_thread = "start"
  /\ api_db = "unset"
  /\ responses = {}

\* main.py lines 84-88: the main thread starts the bot thread and sleeps
Main ==
  /\ main_thread = "start"
  /\ main_thread' = "sleeping"
  /\ bot_thread' = [bot_thread EXCEPT !.at = "loop"]
  /\ UNCHANGED <<env, shutdown_event, bot_module, api_db, responses>>
  /\ UNCHANGED <<handlerVars, storeVars, commandVars>>

\* main.py line 25: the next iteration of the loop, or its end
Iterate(bt) == [bt EXCEPT !.attempt = @ + 1, !.at = IF bt.attempt + 1 < BotMaxRetries THEN "loop" ELSE "exited"]

\* main.py lines 53-64: except Exception: sleep and double the delay, or give
\* up after the last attempt
BotFailed(bt) ==
  IF bt.attempt < BotMaxRetries - 1
  THEN [bt EXCEPT !.slept = Append(@, bt.retry_delay), !.retry_delay = @ * 2, !.attempt = @ + 1, !.at = "loop"]
  ELSE [bt EXCEPT !.at = "exited"]

\* main.py lines 25-28: the top of an iteration: the loop ends when
\* shutdown_event is set
ShutdownCheck ==
  /\ bot_thread.at = "loop"
  /\ bot_thread' = [bot_thread EXCEPT !.at = IF shutdown_event THEN "exited" ELSE "try"]
  /\ UNCHANGED <<env, shutdown_event, bot_module, main_thread, api_db, responses>>
  /\ UNCHANGED <<handlerVars, storeVars, commandVars>>

\* main.py lines 29-44: the try block up to handler.start(): 'import bot',
\* which runs bot.py lines 11-23 (db = Database(), line 17) unless it has
\* succeeded before and raises when Database() does, for missing credentials
\* or because create_client raises; shutdown_event is not read again
BotAttempt ==
  /\ bot_thread.at = "try"
  /\ \/ /\ bot_module = "unloaded"
        /\ bot_thread' = BotFailed(bot_thread)
        /\ UNCHANGED bot_module
     \/ /\ bot_module = "imported" \/ ~MissingCredentials(env)
        /\ bot_module' = "imported"
        /\ bot_thread' = [bot_thread EXCEPT !.at = "started", !.starts = @ + 1]
  /\ UNCHANGED <<env, shutdown_event, main_thread, api_db, responses>>
  /\ UNCHANGED <<handlerVars, storeVars, commandVars>>

\* main.py lines 44-64: handler.start() returns, or raises
HandlerStops ==
  /\ bot_thread.at = "started"
  /\ \/ bot_thread' = Iterate(bot_thread)
     \/ bot_thread' = BotFailed(bot_thread)
  /\ UNCHANGED <<env, shutdown_event, bot_module, main_thread, api_db, responses>>
  /\ UNCHANGED <<handlerVars, storeVars, commandVars>>

\* main.py lines 91-93 and 67-77: run_api imports api, which runs api.py lines
\* 9-14 (db = None when Database() raises), and app.run serves, or raises and
\* the main thread sets shutdown_event and ends (lines 97-100)
RunApi ==
  /\ main_thread = "sleeping"
  /\ \/ api_db' = "none"
     \/ ~MissingCredentials(env) /\ api_db' = "client"
  /\ \/ main_thread' = "serving" /\ UNCHANGED shutdown_event
     \/ main_thread' = "crashed" /\ shutdown_event' = TRUE
  /\ UNCHANGED <<env, bot_thread, bot_module, responses>>
  /\ UNCHANGED <<handlerVars, storeVars, commandVars>>

\* api.py lines 17-106: a request is answered
Request ==
  /\ main_thread = "serving"
  /\ \E path \in Paths : responses' = responses \cup {[path |-> path, status |-> Status(path, api_db)]}
  /\ UNCHANGED <<env, shutdown_event, bot_thread, bot_module, main_thread, api_db>>
  /\ UNCHANGED <<handlerVars, storeVars, commandVars>>

\* main.py lines 94-96: KeyboardInterrupt in the main thread while it serves
Interrupt ==
  /\ main_thread = "serving"
  /\ main_thread' = "exited"
  /\ shutdown_event' = TRUE
  /\ UNCHANGED <<env, bot_thread, bot_module, api_db, responses>>
  /\ UNCHANGED <<handlerVars, storeVars, commandVars>>

StartNext ==
  \/ Main
  \/ ShutdownCheck
  \/ BotAttempt
  \/ HandlerStops
  \/ RunApi
  \/ Request
  \/ Interrupt

StartSpec == StartInit /\ [][StartNext]_vars

---------------------------------------------------------------------------
(* Vocabulary of the properties *)

Started(h) == pc[h] # "idle"

Done(h) == pc[h] = "done"

IsFile(h) == event[h].type = "file_shared"

IsMessage(h) == event[h].type = "message"

\* the timestamp of the message the handler's event is about (0: none found)
MsgTs(h) == IF IsMessage(h) THEN event[h].message.ts ELSE msg[h].ts

\* the handler has called add_point
Scored(h) == calls[h] # <<>>

\* an add_point call of the handler has changed the store
Mutated(h) == \E i \in 1..Len(calls[h]) : calls[h][i].ok

\* the handler's add_point calls: all, those that returned, those that raised
CallsOf(h) == {calls[h][i] : i \in 1..Len(calls[h])}

Applied(h, user, points) == Cardinality({i \in 1..Len(calls[h]) : calls[h][i] = Call(user, points, TRUE)})

Raised(h) == {i \in 1..Len(calls[h]) : ~calls[h][i].ok}

Debits(h) == {i \in 1..Len(calls[h]) : calls[h][i].points = -1}

SeqToSet(seq) == {seq[i] : i \in 1..Len(seq)}

\* the mentions of the text of the handler's message, as extract_mentions gives them
RawMentions(h) == extract_mentions(IF IsMessage(h) THEN event[h].message.text ELSE msg[h].text)

Quiescent == \A h \in Handlers : pc[h] \in {"idle", "done"}

\* the handler's message mentions well-shaped users, each once, within the
\* fan-out limit
PlainInput(h) ==
  /\ \A i \in 1..Len(RawMentions(h)) : IsUserIdShape(RawMentions(h)[i])
  /\ Cardinality(SeqToSet(RawMentions(h))) = Len(RawMentions(h))
  /\ Len(RawMentions(h)) <= FanOutCap

---------------------------------------------------------------------------
(* Properties *)

C3_ClaimAtomic ==
  \A g, h \in Handlers :
    (g # h /\ IsFile(g) /\ IsFile(h) /\ MsgTs(g) # 0 /\ MsgTs(g) = MsgTs(h) /\ PlainInput(g)) => ~(Mutated(g) /\ Mutated(h))

\* C4: a timestamp once in the ledger stays there, and a file_shared event
\* delivered when the timestamp it resolves to is in the ledger makes no
\* add_point call, whatever became of the first reconciliation.
C4_ClaimedStaysClaimed ==
  \A h \in Handlers :
    /\ seen[h] \subseteq processed_messages
    /\ (IsFile(h) /\ MsgTs(h) \in seen[h]) => ~Scored(h)

\* C4 witness: a first file_shared handler claimed the timestamp and every one of
\* its add_point calls raised; a second one, delivered afterwards for the same
\* message, has finished without a call.
C4_Witness ==
  \E g, h \in Handlers :
    /\ IsFile(g) /\ IsFile(h) /\ Done(g) /\ Done(h)
    /\ Scored(g) /\ Raised(g) = 1..Len(calls[g])
    /\ MsgTs(h) = MsgTs(g) /\ MsgTs(h) \in seen[h]
    /\ ~Scored(h)

\* C5: the deltas applied for a spot sum to 0, so the total of the stored
\* scores is what it was (0) whichever store calls fail; stated for the states
\* in which no handler is in the middle of a spot, and for plain inputs.
C5_NetZero == (Quiescent /\ \A h \in Handlers : PlainInput(h)) => TotalScore(scores) = 0

\* C6: when the add_point of exactly one target of a spot of several targets
\* raises (and nothing else fails), every other target is debited, the poster is
\* credited for every target, and the reply for the spot names exactly that
\* target as failed.
C6_PartialFailureReported ==
  \A h \in Handlers :
    (Done(h) /\ faults = 1 /\ PlainInput(h) /\ Len(mentioned_users[h]) >= 2 /\ Len(calls[h]) = 2 * Len(mentioned_users[h]) /\ \E i \in Raised(h) : calls[h][i].points = -1)
      => LET t == calls[h][CHOOSE i \in Raised(h) : TRUE].user
         IN  /\ \A u \in SeqToSet(mentioned_users[h]) \ {t} : Applied(h, u, -1) >= 1
             /\ Applied(h, Poster(h), 1) = Len(mentioned_users[h])
             /\ \E r \in replies : r.thread_ts = MsgTs(h) /\ "failed" \in DOMAIN r /\ r.failed = {t}

\* C7: the poster is never a target: a handler never calls add_point(-1) for its
\* own poster, credits the poster at most once per mention of another user, and
\* makes no call at all when the poster is the only user mentioned.
C7_NoSelfSpot ==
  \A h \in Handlers :
    Started(h) =>
      LET raw == RawMentions(h)
          others == {i \in 1..Len(raw) : raw[i] # Poster(h)}
      IN  /\ \A i \in Debits(h) : calls[h][i].user # Poster(h)
          /\ Len(calls[h]) - Cardinality(Debits(h)) <= Cardinality(others)
          /\ (others = {}) => ~Scored(h)

\* C7 witness: a handler whose message mentions the poster and another user has
\* finished, having debited the other user.
C7_Witness ==
  \E h \in Handlers :
    /\ Done(h)
    /\ Poster(h) \in SeqToSet(RawMentions(h))
    /\ \E u \in SeqToSet(RawMentions(h)) : u # Poster(h) /\ Applied(h, u, -1) = 1
    /\ Applied(h, Poster(h), 1) = 1

\* C8: one event never debits more than 10 targets: a message that mentions
\* more is reconciled with exactly 10 targets and a truncation notice is posted.
C8_FanOutCapped ==
  \A h \in Handlers :
    /\ Cardinality(Debits(h)) <= FanOutCap
    /\ (Done(h) /\ Scored(h) /\ faults = 0 /\ Len(RawMentions(h)) > FanOutCap)
         => \E r \in replies : r.thread_ts = MsgTs(h) /\ "truncated" \in DOMAIN r

\* C9: an identifier that is not of the user-ID shape is never in the mention
\* set and never reaches add_point.
C9_MalformedRejected ==
  \A h \in Handlers :
    /\ \A i \in 1..Len(mentioned_users[h]) : IsUserIdShape(mentioned_users[h][i])
    /\ \A c \in CallsOf(h) : IsUserIdShape(c.user)

\* C10: a user mentioned several times in one message is debited once, and the
\* poster credited once for that user.
C10_MentionsDeduplicated ==
  \A h \in Handlers :
    /\ \A u \in SeqToSet(mentioned_users[h]) : Applied(h, u, -1) <= 1
    /\ Applied(h, Poster(h), 1) <= Cardinality(SeqToSet(mentioned_users[h]))

LedgerCapacity == 1

\* C12: the dedup ledger is bounded: processed_messages never holds more
\* timestamps than its fixed capacity, the oldest being evicted on an insert at
\* capacity.
C12_LedgerBounded == Cardinality(processed_messages) <= LedgerCapacity

NameLookups == {"users_info(poster)", "users_info(target)"}

\* C14: display-name resolution never blocks scoring: a handler that has
\* finished and of whose calls only users_info raised has applied every delta of
\* its spot, +1 to the poster per target and -1 to each target.
C14_NamesNeverBlock ==
  \A h \in Handlers :
    (Done(h) /\ PlainInput(h) /\ raised[h] # {} /\ raised[h] \subseteq NameLookups) =>
      /\ Applied(h, Poster(h), 1) = Len(mentioned_users[h])
      /\ \A i \in 1..Len(mentioned_users[h]) : Applied(h, mentioned_users[h][i], -1) = 1

\* C15: a claimed spot whose store mutations all fail is reported: once a
\* file_shared handler that put its timestamp into the ledger has returned with
\* every add_point call it made having raised, the message has a reply.
C15_FullFailureReported ==
  \A h \in Handlers :
    (Done(h) /\ IsFile(h) /\ PlainInput(h) /\ MsgTs(h) \in processed_messages \ seen[h] /\ Scored(h) /\ ~Mutated(h)) =>
      \E r \in replies : r.thread_ts = MsgTs(h)

\* the calls that acknowledge a spot
AckCalls == {"reactions_add", "say"}

\* C19: a failure of reactions_add or say never reaches the scoring: the step
\* in which one of them raises leaves the scores, the ledger and the handler's
\* add_point calls as they were, and the handler returns.
C19_AckFailureContained ==
  [][\A h \in Handlers :
       (raised'[h] \ raised[h]) \cap AckCalls # {} =>
         /\ scores' = scores
         /\ processed_messages' = processed_messages
         /\ calls'[h] = calls[h]
         /\ pc'[h] = "done"]_vars

\* a file_shared handler has returned after reactions_add raised, its deltas
\* applied and its timestamp in the ledger
C19_Witness ==
  \E h \in Handlers :
    /\ Done(h) /\ IsFile(h)
    /\ "reactions_add" \in raised[h]
    /\ Applied(h, Poster(h), 1) = 1
    /\ scores[Poster(h)] = 1
    /\ MsgTs(h) \in processed_messages

\* the subtypes the specification excludes from spots: bot echo, edit, delete
NonSpotSubtypes == {"bot_message", "message_changed", "message_deleted"}

\* the subtype of the message the handler's event is about
Subtype(h) == IF IsMessage(h) THEN event[h].message.subtype ELSE msg[h].subtype

\* C20: an event whose message carries an edit, delete or bot-echo subtype is
\* never a spot: its handler, of either kind, makes no add_point call and the
\* message's timestamp does not enter processed_messages.
C20_SubtypeNeverSpot ==
  \A h \in Handlers :
    (Started(h) /\ Subtype(h) \in NonSpotSubtypes) =>
      /\ ~Scored(h)
      /\ MsgTs(h) \notin processed_messages

\* the attempts of the caller's call in which operation() raised
Failures(c) == Cardinality({i \in 1..Len(call[c].outcomes) : ~call[c].outcomes[i]})

\* C17: every call through _retry_operation ends: operation() is invoked at
\* most max_retries (3) times, no attempt follows the first success, the wait
\* after failed attempt k (k = 0, 1) is 0.5 * 2^k seconds (500 and 1000 ms), and
\* the third failure raises instead of trying again.
C17_RetryBounded ==
  \A c \in Callers :
    /\ call[c].attempt < 3
    /\ Len(call[c].outcomes) <= 3
    /\ \A i \in 1..Len(call[c].outcomes) :
         call[c].outcomes[i] => (i = Len(call[c].outcomes) /\ call[c].at = "done" /\ call[c].retry = "returned")
    /\ call[c].slept = SubSeq(<<500, 1000>>, 1, Min(Failures(c), 2))
    /\ Failures(c) = 3 <=> call[c].retry = "raised"
    /\ call[c].retry # "pending" <=> call[c].at = "done"

\* one call has raised after three failed attempts and the waits of 0.5 s and
\* 1 s, another has returned from its second attempt after one wait
C17_Witness ==
  \E c, d \in Callers :
    /\ call[c].at = "done" /\ call[c].outcomes = <<FALSE, FALSE, FALSE>>
    /\ call[c].slept = <<500, 1000>> /\ call[c].result = "raised"
    /\ call[d].at = "done" /\ call[d].outcomes = <<FALSE, TRUE>>
    /\ call[d].slept = <<500>> /\ call[d].result = "returned"

\* the change of the user's stored score in a step
Delta(u) == Fetched(scores', u) - Fetched(scores, u)

\* C18 as stated: a stored score changes only by +1 or -1, and no record is
\* deleted, in any step of the event handlers and the command handlers.
C18_OnlySpotDeltas ==
  [][/\ DOMAIN scores \subseteq DOMAIN scores'
     /\ \A u \in DOMAIN scores' : Delta(u) \in {-1, 0, 1}]_vars

\* C18 amended: a stored score changes by +1 or -1 in a step of a spot
\* handler, or by the amount of an !adjust command in the step of that command
\* (one user, the command's target), and no step deletes a record.
C18_SpotOrAdjust ==
  [][/\ DOMAIN scores \subseteq DOMAIN scores'
     /\ commands' = commands => \A u \in DOMAIN scores' : Delta(u) \in {-1, 0, 1}
     /\ commands' # commands =>
          \E target_user \in AdjustTargets : \E adjustment \in Adjustments :
            /\ Delta(target_user) \in {0, adjustment}
            /\ \A u \in DOMAIN scores' \ {target_user} : Delta(u) = 0]_vars

\* the poster of a spot has the +1 of the spot and the +5 of an !adjust, and
\* the handler said so
C18_Witness ==
  /\ \E h \in Handlers : Applied(h, Uid(1), 1) = 1
  /\ [kind |-> "adjusted", user |-> Uid(1), amount |-> 5, score |-> 6] \in said
  /\ Fetched(scores, Uid(1)) = 6

\* both credentials are set in the environment
Configured == "SUPABASE_URL" \in env /\ "SUPABASE_KEY" \in env

\* C16 as stated: with SUPABASE_URL or SUPABASE_KEY missing neither the Slack
\* handler nor the HTTP API ever runs.
C16_StartupPrevented ==
  ~Configured => (bot_thread.at # "started" /\ main_thread # "serving")

\* C16 amended: with SUPABASE_URL or SUPABASE_KEY missing the Slack handler is
\* never started, and the HTTP API runs without a database: it answers every
\* route with 503.
C16_BotPreventedApiDegraded ==
  ~Configured =>
    /\ bot_thread.at # "started"
    /\ bot_thread.starts = 0
    /\ bot_module = "unloaded"
    /\ api_db # "client"
    /\ \A r \in responses : r.status \in {503, 404}

\* SUPABASE_KEY is missing, the bot thread has given up after five attempts
\* and the sleeps of 5, 10, 20 and 40 seconds, and the API serves: it has
\* answered the health check with 503
C16_Witness ==
  /\ env = {"SUPABASE_URL"}
  /\ bot_thread.at = "exited"
  /\ bot_thread.attempt = 4
  /\ bot_thread.slept = <<5, 10, 20, 40>>
  /\ main_thread = "serving"
  /\ [path |-> "/", status |-> 503] \in responses

\* C21: a message event that shows no image on first inspection is fetched
\* again exactly once before it is rejected: a message handler that has
\* returned on a message without an image, in the channel and of no ignored
\* subtype, has read the message back from the channel (fetched holds what
\* conversations_history gave the handler).
C21_OneRefetch ==
  \A h \in Handlers :
    (Done(h) /\ IsMessage(h) /\ Channel(h) = SPOTTED_CHANNEL /\ event[h].message.subtype \notin IgnoredSubtypes /\ ~has_image(event[h].message)) =>
      /\ fetched[h] # <<>>
      /\ \E i \in 1..Len(fetched[h]) : fetched[h][i].ts = MsgTs(h)

\* the handler is past the ledger insert of line 106
Claimed(h) == pc[h] \in {"credit", "debit", "ack"} \/ Scored(h) \/ raised[h] \cap NameLookups # {}

\* C22: a file_shared event changes state only through a message of the
\* fetched window (at most 5 messages) that the uploading user wrote and that
\* holds the event's file: the ledger key and the mentions are that message's,
\* and without such a message the handler makes no add_point call and no
\* ledger insert.
C22_WindowMatch ==
  \A h \in Handlers :
    IsFile(h) =>
      /\ Len(fetched[h]) <= 5
      /\ msg[h] # NoMsg =>
           /\ \E i \in 1..Len(fetched[h]) : fetched[h][i] = msg[h]
           /\ msg[h].user = event[h].user_id
           /\ \E k \in 1..Len(msg[h].files) : msg[h].files[k].id = event[h].file_id
      /\ Claimed(h) =>
           /\ msg[h] # NoMsg
           /\ msg[h].ts \in processed_messages
           /\ mentioned_users[h] = Without(extract_mentions(msg[h].text), event[h].user_id)
      /\ msg[h] = NoMsg =>
           /\ ~Scored(h)
           /\ (\A g \in Handlers \ {h} : ~Started(g)) => processed_messages = seen[h]

\* a file_shared handler has returned without a message: the file's message,
\* by the uploading user, is in the channel but older than the five messages
\* fetched; nothing is scored and the ledger is empty
C22_Witness ==
  \E h \in Handlers :
    /\ Done(h) /\ IsFile(h) /\ Channel(h) = SPOTTED_CHANNEL
    /\ Len(fetched[h]) = 5
    /\ msg[h] = NoMsg
    /\ \E i \in 6..Len(history) : history[i].user = event[h].user_id /\ \E k \in 1..Len(history[i].files) : history[i].files[k].id = event[h].file_id
    /\ raised[h] = {}
    /\ processed_messages = {}
    /\ scores = <<>>

\* the caller is the only one that has called the Database
Alone(c) == \A d \in Callers \ {c} : call[d].at = "idle"

\* C23: one add_point(user, points) call changes the stored score by points at
\* most once, whatever attempts fail: while it runs the score is the old one
\* (0 without a record) or the old one plus points, when it returns it is the
\* old one plus points, and when it raises the table is as it was.
C23_AppliedOnce ==
  \A c \in Callers :
    (call[c].op = "add_point" /\ Alone(c)) =>
      /\ Fetched(scores, call[c].user) - Fetched(call[c].before, call[c].user) \in {0, call[c].points}
      /\ call[c].result = "returned" => Fetched(scores, call[c].user) = Fetched(call[c].before, call[c].user) + call[c].points
      /\ call[c].result = "raised" => scores = call[c].before

\* two add_point calls for one user that overlap: both were called on the same
\* table, both have returned from their first attempt, nobody else has called
Overlapped(c, d) ==
  /\ c # d
  /\ call[c].op = "add_point" /\ call[d].op = "add_point"
  /\ call[c].user = call[d].user
  /\ call[c].before = call[d].before
  /\ call[c].result = "returned" /\ call[d].result = "returned"
  /\ call[c].outcomes = <<TRUE>> /\ call[d].outcomes = <<TRUE>>
  /\ \A e \in Callers \ {c, d} : call[e].at = "idle"

\* what the two calls have added to the user's score
Gained(c, d) == Fetched(scores, call[c].user) - Fetched(call[c].before, call[c].user)

C25_OtherChannelInert ==
  [][ /\ \A h \in Handlers :
           (pc[h] = "idle" /\ pc'[h] # "idle" /\ Channel(h)' # SPOTTED_CHANNEL) =>
             /\ pc'[h] = "done"
             /\ calls'[h] = <<>>
             /\ scores' = scores
             /\ processed_messages' = processed_messages
      /\ (commands' # commands /\ message'.channel # SPOTTED_CHANNEL) =>
           /\ scores' = scores
           /\ processed_messages' = processed_messages
    ]_vars

\* the message event of a spot (an image and a mention of another user) and an
\* !adjust command have both come from another channel, and nothing is scored
\* or claimed
C25_Witness ==
  \E h \in Handlers :
    /\ Done(h) /\ IsMessage(h) /\ Channel(h) # SPOTTED_CHANNEL
    /\ IsSpotMessage(SPOTTED_CHANNEL, event[h].message)
    /\ message.command = "adjust" /\ message.channel # SPOTTED_CHANNEL
    /\ calls[h] = <<>>
    /\ scores = <<>>
    /\ processed_messages = {}

\* handler.start() has been called at most max_retries times
StartsBounded == bot_thread.starts <= BotMaxRetries /\ bot_thread.attempt <= BotMaxRetries

\* the sleeps so far are 5, 10, 20, 40 seconds in this order, none after the
\* failure of the last attempt
SleepsDouble ==
  /\ Len(bot_thread.slept) <= BotMaxRetries - 1
  /\ \A i \in 1..Len(bot_thread.slept) : bot_thread.slept[i] = BotRetryDelay * 2^(i - 1)
  /\ Len(bot_thread.slept) <= bot_thread.attempt

\* with shutdown_event set, a step calls handler.start() no more
NoStartAfterShutdown == shutdown_event => bot_thread'.starts = bot_thread.starts

\* C26: run_bot_with_restart calls handler.start() at most 5 times, sleeps 5,
\* 10, 20, 40 seconds after its failed attempts (no sleep after the fifth),
\* and once shutdown_event is set it starts the handler no more.
C26_RestartLoop == [](StartsBounded /\ SleepsDouble) /\ [][NoStartAfterShutdown]_vars

\* the call has come back to its caller after the failure of every attempt
Exhausted(c) == call[c].at = "done" /\ call[c].retry = "raised"

====
